---- MODULE Spec2Model ----
(***************************************************************************)
(* Model of the document processing pipeline of ai-processing-tool:        *)
(* DocumentService (upload, reprocess, delete, processDocumentAsync),      *)
(* AiService (extractTextFromFile, processDocument and its parsers) and    *)
(* the record store / file storage they call.                              *)
(*                                                                         *)
(* Strings are sequences of atoms: an atom is a run of letters (a word) or *)
(* one other character (" ", "|", ",", ".", "-", a digit).  Numbers are    *)
(* kept in hundredths (0.5 is 50).  A nullable column holds Null (<<>>)    *)
(* or Some(v) (<<v>>).                                                     *)
(***************************************************************************)
EXTENDS Integers, Sequences, FiniteSets, TLC

\* ------------------------------------------------------------------ bounds
\* Invocations of processDocumentAsync in one behaviour.
MaxRuns == 2

\* Every operation is keyed by one document id and shares nothing between ids:
\* one id is followed, through any number of runs on it.
DocIds == {1}
Runs == 1..MaxRuns

\* ------------------------------------------------------- nullable columns
Null == <<>>
Some(v) == <<v>>
IsNull(x) == x = <<>>
Val(x) == x[1]

\* ------------------------------------------------------------ enumerations
UPLOADED == "uploaded"
PROCESSING == "processing"
PROCESSED == "processed"
FAILED == "failed"
DocumentStatus == {UPLOADED, PROCESSING, PROCESSED, FAILED}

DocumentCategory ==
    {<<"invoice">>, <<"contract">>, <<"report">>, <<"receipt">>, <<"form">>, <<"other">>}

\* --------------------------------------------------------- string helpers
IsSpace(a) == a = " "

RECURSIVE TrimStart(_)
TrimStart(s) ==
    IF s = <<>> THEN <<>>
    ELSE IF IsSpace(Head(s)) THEN TrimStart(Tail(s)) ELSE s

RECURSIVE TrimEnd(_)
TrimEnd(s) ==
    IF s = <<>> THEN <<>>
    ELSE IF IsSpace(s[Len(s)]) THEN TrimEnd(SubSeq(s, 1, Len(s) - 1)) ELSE s

Trim(s) == TrimEnd(TrimStart(s))

\* String.prototype.split(sep) for a one-atom separator: always at least one part.
RECURSIVE SplitAcc(_, _, _)
SplitAcc(s, sep, cur) ==
    IF s = <<>> THEN <<cur>>
    ELSE IF Head(s) = sep THEN <<cur>> \o SplitAcc(Tail(s), sep, <<>>)
    ELSE SplitAcc(Tail(s), sep, Append(cur, Head(s)))

Split(s, sep) == SplitAcc(s, sep, <<>>)

\* text.split(/\s+/): runs of spaces separate; leading or trailing spaces give
\* an empty first or last part, and the empty string gives one empty part.
RECURSIVE SplitWsAcc(_, _, _)
SplitWsAcc(s, cur, inGap) ==
    IF s = <<>> THEN <<cur>>
    ELSE IF IsSpace(Head(s))
         THEN IF inGap THEN SplitWsAcc(Tail(s), cur, TRUE)
              ELSE <<cur>> \o SplitWsAcc(Tail(s), <<>>, TRUE)
    ELSE SplitWsAcc(Tail(s), Append(cur, Head(s)), FALSE)

SplitWhitespace(s) == SplitWsAcc(s, <<>>, FALSE)

LowerTable ==
    [a \in {"The", "Invoice", "Other", "W", "Dla", "C", "D", "A"} |->
        CASE a = "The" -> "the"
          [] a = "Invoice" -> "invoice"
          [] a = "Other" -> "other"
          [] a = "W" -> "w"
          [] a = "Dla" -> "dla"
          [] a = "C" -> "c"
          [] a = "D" -> "d"
          [] a = "A" -> "a"]

LowerAtom(a) == IF a \in DOMAIN LowerTable THEN LowerTable[a] ELSE a

ToLowerCase(s) == [i \in 1..Len(s) |-> LowerAtom(s[i])]

\* ------------------------------------------------- AiService: pure parsers
Digits == {"0", "1", "2", "3", "4", "5", "6", "7", "8", "9"}

DigitVal(a) ==
    CASE a = "0" -> 0 [] a = "1" -> 1 [] a = "2" -> 2 [] a = "3" -> 3 [] a = "4" -> 4
      [] a = "5" -> 5 [] a = "6" -> 6 [] a = "7" -> 7 [] a = "8" -> 8 [] a = "9" -> 9

RECURSIVE LeadingDigits(_)
LeadingDigits(s) ==
    IF s = <<>> \/ Head(s) \notin Digits THEN <<>>
    ELSE <<Head(s)>> \o LeadingDigits(Tail(s))

RECURSIVE DigitsValue(_, _)
DigitsValue(ds, acc) ==
    IF ds = <<>> THEN acc ELSE DigitsValue(Tail(ds), acc * 10 + DigitVal(Head(ds)))

NaN == [nan |-> TRUE, v |-> 0]
Num(n) == [nan |-> FALSE, v |-> n]

\* parseFloat on the decimal grammar [ws][+-]digits[.digits] | [ws][+-].digits,
\* reading the longest valid prefix; the value is kept in hundredths, so inputs
\* carry at most two fractional digits.  undefined (Null) gives NaN.
ParseFloat(str) ==
    IF IsNull(str) THEN NaN
    ELSE
      LET s0 == TrimStart(Val(str))
          neg == s0 # <<>> /\ Head(s0) = "-"
          s1 == IF s0 # <<>> /\ Head(s0) \in {"-", "+"} THEN Tail(s0) ELSE s0
          ip == LeadingDigits(s1)
          r1 == SubSeq(s1, Len(ip) + 1, Len(s1))
          fp == IF r1 # <<>> /\ Head(r1) = "." THEN LeadingDigits(Tail(r1)) ELSE <<>>
          f2 == SubSeq(fp \o <<"0", "0">>, 1, 2)
          mag == DigitsValue(ip, 0) * 100 + DigitsValue(f2, 0)
      IN  IF ip = <<>> /\ fp = <<>> THEN NaN
          ELSE Num(IF neg THEN 0 - mag ELSE mag)

\* Variant: only NaN gives the default.
OrDefault_KeepsZero(x, d) == IF x.nan THEN d ELSE x.v

\* JavaScript `x || d` on a number: NaN and 0 are falsy.
OrDefault(x, d) == IF x.nan \/ x.v = 0 THEN d ELSE x.v

DefaultConfidence == 50
DefaultSentiment == 0

englishWords == {"the", "and", "or", "but", "in", "on", "at", "to", "for", "of", "with", "by"}
polishWords == {"i", "oraz", "lub", "ale", "w", "na", "do", "dla", "z", "przez", "od"}

CountIn(words, list) ==
    Cardinality({i \in 1..Len(words) : Len(words[i]) = 1 /\ words[i][1] \in list})

\* Variant: a tie goes to Polish.
detectLanguage_TieIsPolish(text) ==
    LET words == SplitWhitespace(ToLowerCase(text))
    IN  IF CountIn(words, polishWords) >= CountIn(words, englishWords) THEN "pl" ELSE "en"

detectLanguage(text) ==
    LET words == SplitWhitespace(ToLowerCase(text))
        englishCount == CountIn(words, englishWords)
        polishCount == CountIn(words, polishWords)
    IN  IF polishCount > englishCount THEN "pl" ELSE "en"

\* The four regular expressions of extractStructuredData, as the sets of atoms
\* of the model's vocabulary each one matches.
dateRegex == {"01/02/2024"}
amountRegex == {"$45.00"}
emailRegex == {"a@b.com"}
phoneRegex == {"555-123-4567"}

MatchAll(text, regex) == SelectSeq(text, LAMBDA a : a \in regex)

extractStructuredData(text) ==
    LET all == [dates |-> MatchAll(text, dateRegex),
                amounts |-> MatchAll(text, amountRegex),
                emails |-> MatchAll(text, emailRegex),
                phones |-> MatchAll(text, phoneRegex)]
        present == {k \in DOMAIN all : all[k] # <<>>}
    IN  [k \in present |-> all[k]]

\* ------------------------------------------------------------ error values
ExtractionFailed == "Text extraction failed"
AnnotationFailed == "AI processing failed"
AnnotationUnavailable == "AI processing is not available. Please configure OpenAI API key."
FileRetrievalFailed == "File retrieval failed"
FileUploadFailed == "File upload failed"
FileDeletionFailed == "File deletion failed"
\* Messages of errors raised by libraries, passed on as they are.
\* Message of the error thrown for a media type no branch takes.
UnsupportedFileType == "Unsupported file type"
QueryFailed == "QueryFailedError"
OcrError == "textract error"

Ok(v) == [ok |-> TRUE, value |-> v, error |-> ""]
Throw(msg) == [ok |-> FALSE, value |-> <<>>, error |-> msg]

\* ------------------------------------------- AiService.extractTextFromFile
PDF == "application/pdf"
DOCX == "application/vnd.openxmlformats-officedocument.wordprocessingml.document"
MSWORD == "application/msword"
TEXT == "text/plain"
JPEG == "image/jpeg"
PNG == "image/png"
GIF == "image/gif"
ZIP == "application/zip"
TEXT_CHARSET == "text/plain; charset=utf-8"

MimeTypes == {PDF, DOCX, MSWORD, TEXT, JPEG, PNG, GIF, ZIP, TEXT_CHARSET}

\* mimeType.includes(needle), tabulated for the media types above.
Includes(mimeType, needle) ==
    CASE needle = "word" -> mimeType \in {DOCX, MSWORD}
      [] needle = "docx" -> FALSE
      [] needle = "text/plain" -> mimeType \in {TEXT, TEXT_CHARSET}
      [] needle = "image/" -> mimeType \in {JPEG, PNG, GIF}

\* The branch of the if/else chain a media type takes.
ExtractorFor(mimeType) ==
    IF mimeType = PDF THEN "pdfParse"
    ELSE IF Includes(mimeType, "word") \/ Includes(mimeType, "docx") THEN "mammoth"
    ELSE IF Includes(mimeType, "text/plain") THEN "toString"
    ELSE IF Includes(mimeType, "image/") THEN "textract"
    ELSE "none"

\* The catch clause of extractTextFromFile: whatever was thrown inside the try
\* block leaves as 'Text extraction failed'.
CatchExtraction(res) == IF res.ok THEN res ELSE Throw(ExtractionFailed)

\* lib = Ok(text) when the extraction library succeeds on the buffer, Throw(msg)
\* when it fails.  The pdf and word branches await the library inside the try
\* block; the image branch returns its promise without awaiting it, so a
\* rejection leaves the function past the catch clause; decoding plain text
\* does not fail.
extractTextFromFile(content, mimeType, lib) ==
    LET branch == ExtractorFor(mimeType)
    IN  CASE branch = "pdfParse" -> IF lib.ok THEN Ok(lib.value) ELSE Throw(ExtractionFailed)
          [] branch = "mammoth" -> IF lib.ok THEN Ok(lib.value) ELSE Throw(ExtractionFailed)
          [] branch = "toString" -> Ok(content)
          [] branch = "textract" -> IF lib.ok THEN Ok(lib.value) ELSE Throw(lib.error)
          [] OTHER -> CatchExtraction(Throw(UnsupportedFileType))

\* ----------------------------------------------- AiService.processDocument
AnnotationCalls == {"summary", "classification", "keywords", "sentiment"}

\* replies: for each of the four calls, Ok(content) or Throw(msg).
AnyRejected(replies) == \E c \in AnnotationCalls : ~replies[c].ok

ParseClassification(classification) ==
    LET parts == Split(classification, "|")
        category == parts[1]
        confidenceStr == IF Len(parts) >= 2 THEN Some(parts[2]) ELSE Null
    IN  [category |-> ToLowerCase(Trim(category)),
         confidence |-> OrDefault(ParseFloat(confidenceStr), DefaultConfidence)]

ParseKeywords(keywords) ==
    LET parts == Split(keywords, ",")
        trimmed == [i \in 1..Len(parts) |-> Trim(parts[i])]
    IN  SelectSeq(trimmed, LAMBDA k : Len(k) > 0)

ParseSentiment(sentiment) == OrDefault(ParseFloat(Some(sentiment)), DefaultSentiment)

\* Variant: a rejected sentiment call is tolerated and the default score is used.
processDocument_ToleratesSentiment(llm, text, replies) ==
    IF ~llm THEN Throw(AnnotationUnavailable)
    ELSE IF \E c \in AnnotationCalls \ {"sentiment"} : ~replies[c].ok THEN Throw(AnnotationFailed)
    ELSE
      LET cls == ParseClassification(replies["classification"].value)
      IN  Ok([summary |-> Trim(replies["summary"].value),
              keywords |-> ParseKeywords(replies["keywords"].value),
              category |-> cls.category,
              confidence |-> cls.confidence,
              language |-> detectLanguage(text),
              sentiment |-> IF replies["sentiment"].ok
                            THEN ParseSentiment(replies["sentiment"].value)
                            ELSE DefaultSentiment,
              extractedFields |-> extractStructuredData(text)])

processDocument(llm, text, replies) ==
    IF ~llm THEN Throw(AnnotationUnavailable)
    ELSE IF AnyRejected(replies) THEN Throw(AnnotationFailed)
    ELSE
      LET cls == ParseClassification(replies["classification"].value)
      IN  Ok([summary |-> Trim(replies["summary"].value),
              keywords |-> ParseKeywords(replies["keywords"].value),
              category |-> cls.category,
              confidence |-> cls.confidence,
              language |-> detectLanguage(text),
              sentiment |-> ParseSentiment(replies["sentiment"].value),
              extractedFields |-> extractStructuredData(text)])

generateEmbeddings(text) == <<>>

\* ------------------------------------------------------------ model inputs
\* File contents (what a successful extraction of the file yields).
Text1 == <<"The", " ", "invoice", " ", "01/02/2024">>
Text2 == <<"w", " ", "dla">>

\* Uploaded files: media type, size in bytes, content.
maxSize == 10 * 1024 * 1024
Files ==
    {[mimetype |-> PDF, size |-> 1, content |-> Text1],
     [mimetype |-> TEXT, size |-> maxSize, content |-> Text2],
     [mimetype |-> PNG, size |-> 1, content |-> Text1],
     [mimetype |-> ZIP, size |-> 1, content |-> Text1],
     [mimetype |-> PDF, size |-> maxSize + 1, content |-> Text1]}

\* Contents the annotation backend may answer with, one per call.
Bundles ==
    {[summary |-> <<" ", "An", " ", "invoice", " ">>,
      classification |-> <<"Invoice", "|", "0", ".", "9">>,
      keywords |-> <<"invoice", ",", " ", "tax", ",">>,
      sentiment |-> <<"0", ".", "5">>],
     [summary |-> <<"Other">>,
      classification |-> <<" ", "other", "|", "0">>,
      keywords |-> <<>>,
      sentiment |-> <<"none">>],
     [summary |-> <<"Unclear">>,
      classification |-> <<"unknown">>,
      keywords |-> <<"misc">>,
      sentiment |-> <<"-", "1">>]}

\* The four replies of one processDocument call: all four answered, or any
\* non-empty set of them rejected (the content of the others then plays no part).
RepliesOf(b, failed) ==
    [c \in AnnotationCalls |-> IF c \in failed THEN Throw("backend error") ELSE Ok(b[c])]

LLMReplies ==
    {RepliesOf(b, {}) : b \in Bundles}
        \cup {RepliesOf(CHOOSE b \in Bundles : TRUE, failed) :
                    failed \in (SUBSET AnnotationCalls) \ {{}}}

\* ------------------------------------------------------------------- state
VARIABLES
    rows,       \* ids that have a record in the documents table
    records,    \* the record of each id (BlankRow while it has none)
    writtenBy,  \* history: for each id and column, the run that last wrote it (0: none)
    storage,    \* storage key -> Some(content) while the object exists
    nextId,     \* next document id / storage key to hand out
    llm,        \* whether the annotation client was constructed
    run,        \* the processDocumentAsync invocations: position and locals
    deleting,   \* ids whose deleteDocument call has removed the file and not yet the record
    response,   \* what the last uploadDocument / reprocessDocument call gave its caller
    probe       \* a direct call of one service function: its arguments and result

\* What the service keeps: the documents table, the object storage, the invocations.
system == <<rows, records, writtenBy, storage, nextId, llm, run, deleting>>

vars == <<rows, records, writtenBy, storage, nextId, llm, run, deleting, response, probe>>

ResultFields ==
    {"extractedText", "summary", "keywords", "category", "confidence", "language",
     "sentiment", "extractedFields", "embeddings"}

TrackedFields == ResultFields \cup {"status"}

BlankRow ==
    [status |-> UPLOADED, mimeType |-> "", storageKey |-> 0,
     extractedText |-> Null, summary |-> Null, keywords |-> Null, category |-> Null,
     confidence |-> Null, language |-> Null, sentiment |-> Null, metadata |-> Null,
     extractedFields |-> Null, embeddings |-> Null]

IdleRun ==
    [pc |-> "idle", docId |-> 0, document |-> Null, fileBuffer |-> Null,
     extractedText |-> Null, processingResult |-> Null, embeddings |-> Null,
     error |-> Null, rejected |-> FALSE]

\* No request answered yet; no function called directly.
NoResponse == [op |-> "none", arg |-> Null, result |-> Ok(<<>>)]
NoProbe == [fn |-> "none"]

Terminal == {"processed", "failed", "aborted", "crashed"}
InFlight(r) == run[r].pc \notin Terminal \cup {"idle"}

\* A finished invocation keeps its outcome, its document id and whether one of
\* its annotation calls was rejected.
Finished(r, outcome) ==
    [IdleRun EXCEPT !.pc = outcome, !.docId = run[r].docId, !.rejected = run[r].rejected]

Init ==
    /\ rows = {}
    /\ records = [d \in DocIds |-> BlankRow]
    /\ writtenBy = [d \in DocIds |-> [f \in TrackedFields |-> 0]]
    /\ storage = [k \in DocIds |-> Null]
    /\ nextId = 1
    /\ llm \in BOOLEAN
    /\ run = [r \in Runs |-> IdleRun]
    /\ deleting = {}
    /\ response = NoResponse
    /\ probe = NoProbe

\* --------------------------------------------------- Repository<Document>
\* repository.update(id, partial): the named columns of the row with that id,
\* in one statement; no row, no effect.
\* Variant: a row that reached processed or failed is not written again.
Update_FirstOutcomeStays(row, partial) ==
    IF row.status \in {PROCESSED, FAILED} THEN row
    ELSE [f \in DOMAIN row |-> IF f \in DOMAIN partial THEN partial[f] ELSE row[f]]

Update(row, partial) ==
    [f \in DOMAIN row |-> IF f \in DOMAIN partial THEN partial[f] ELSE row[f]]

\* Variant: an update of an id without a row writes the row.
UpdateRecords_Upsert(id, partial) == [records EXCEPT ![id] = Update(@, partial)]

UpdateRecords(id, partial) ==
    IF id \in rows THEN [records EXCEPT ![id] = Update(@, partial)] ELSE records

UpdateWrittenBy(id, partial, r) ==
    IF id \in rows
    THEN [writtenBy EXCEPT ![id] =
            [f \in TrackedFields |-> IF f \in DOMAIN partial THEN r ELSE @[f]]]
    ELSE writtenBy

\* The enum column rejects a category outside DocumentCategory.
ColumnsAccept(partial) ==
    "category" \in DOMAIN partial => Val(partial["category"]) \in DocumentCategory

\* --------------------------------------------------------- DocumentService
\* Variant: archives are accepted too.
allowedMimeTypes_WithZip == {PDF, DOCX, MSWORD, TEXT, JPEG, PNG, GIF, ZIP}

allowedMimeTypes == {PDF, DOCX, MSWORD, TEXT, JPEG, PNG, GIF}

validateFile_NoSizeLimit(file) ==
    IF file.mimetype \notin allowedMimeTypes THEN Throw("Unsupported file type")
    ELSE Ok(<<>>)

validateFile(file) ==
    IF file.mimetype \notin allowedMimeTypes THEN Throw("Unsupported file type")
    ELSE IF file.size > maxSize THEN Throw("File size exceeds maximum limit of 10MB")
    ELSE Ok(<<>>)

\* Invocations are numbered in the order they start.
FreeRun == CHOOSE r \in Runs : run[r].pc = "idle" /\ \A q \in 1..(r - 1) : run[q].pc # "idle"
HasFreeRun == \E r \in Runs : run[r].pc = "idle"

\* this.processDocumentAsync(id): runs up to its first await, the update it issues
\* takes effect in a later step.
StartRun(id) == [run EXCEPT ![FreeRun] = [IdleRun EXCEPT !.pc = "setProcessing", !.docId = id]]

mapToResponseDto_AfterFirstWrite(id, document) ==
    [id |-> id, status |-> PROCESSING, mimeType |-> document.mimeType,
     summary |-> document.summary, keywords |-> document.keywords,
     category |-> document.category, confidence |-> document.confidence,
     language |-> document.language, sentiment |-> document.sentiment,
     metadata |-> document.metadata, extractedFields |-> document.extractedFields]

\* The response DTO: the record without extractedText, embeddings and storageKey.
mapToResponseDto(id, document) ==
    [id |-> id, status |-> document.status, mimeType |-> document.mimeType,
     summary |-> document.summary, keywords |-> document.keywords,
     category |-> document.category, confidence |-> document.confidence,
     language |-> document.language, sentiment |-> document.sentiment,
     metadata |-> document.metadata, extractedFields |-> document.extractedFields]

\* repository.create(...): the entity uploadDocument saves.
NewDocument(file, key) ==
    [BlankRow EXCEPT !.status = UPLOADED, !.mimeType = file.mimetype, !.storageKey = key]

UploadRequest(file) == Some([mimetype |-> file.mimetype, size |-> file.size])

\* The caller's side of a request: what the call returns or throws. It is kept
\* in the specification that watches the callers (SpecRequests).
Observed == probe.fn = "requests"
Respond(op, arg, result) ==
    response' = IF Observed THEN [op |-> op, arg |-> arg, result |-> result] ELSE response

uploadDocument(file) ==
    /\ nextId \in DocIds
    /\ UNCHANGED probe
    /\ IF ~validateFile(file).ok
       THEN /\ Respond("upload", UploadRequest(file), validateFile(file))
            /\ UNCHANGED system
       ELSE \E storageOk \in BOOLEAN, dbOk \in BOOLEAN :
            IF ~storageOk
            THEN /\ Respond("upload", UploadRequest(file), Throw(FileUploadFailed))
                 /\ UNCHANGED system
            ELSE /\ storage' = [storage EXCEPT ![nextId] = Some(file.content)]
                 /\ nextId' = nextId + 1
                 /\ IF ~dbOk
                    THEN /\ Respond("upload", UploadRequest(file), Throw(QueryFailed))
                         /\ UNCHANGED <<rows, records, run>>
                    ELSE /\ HasFreeRun
                         /\ rows' = rows \cup {nextId}
                         /\ records' = [records EXCEPT ![nextId] = NewDocument(file, nextId)]
                         /\ run' = StartRun(nextId)
                         /\ Respond("upload", UploadRequest(file),
                                    Ok(mapToResponseDto(nextId, NewDocument(file, nextId))))
                 /\ UNCHANGED <<writtenBy, llm, deleting>>

NotFound == "Document not found"

FindDocument_NoCheck(id) == Ok(records[id])

\* findOne({ where: { id } }) and the check of its result.
FindDocument(id) ==
    IF id \in rows THEN Ok(records[id]) ELSE Throw(NotFound)

reprocessDocument(id) ==
    /\ UNCHANGED probe
    /\ \E dbOk \in BOOLEAN :
        IF ~dbOk
        THEN /\ Respond("reprocess", Some(id), Throw(QueryFailed))
             /\ UNCHANGED system
        ELSE IF ~FindDocument(id).ok
        THEN /\ Respond("reprocess", Some(id), FindDocument(id))
             /\ UNCHANGED system
        ELSE /\ HasFreeRun
             /\ run' = StartRun(id)
             /\ Respond("reprocess", Some(id), Ok(mapToResponseDto(id, FindDocument(id).value)))
             /\ UNCHANGED <<rows, records, writtenBy, storage, nextId, llm, deleting>>

\* deleteDocument, up to the removal of the stored file.
deleteDocumentFile(id) ==
    /\ id \notin deleting
    /\ \E dbOk \in BOOLEAN, storageOk \in BOOLEAN :
        IF ~dbOk \/ id \notin rows \/ ~storageOk
        THEN UNCHANGED system
        ELSE /\ storage' = [storage EXCEPT ![records[id].storageKey] = Null]
             /\ deleting' = deleting \cup {id}
             /\ UNCHANGED <<rows, records, writtenBy, nextId, llm, run>>

\* deleteDocument, the removal of the record.
deleteDocumentRecord(id) ==
    /\ id \in deleting
    /\ deleting' = deleting \ {id}
    /\ \E dbOk \in BOOLEAN :
        IF ~dbOk
        THEN UNCHANGED <<rows, records, writtenBy>>
        ELSE /\ rows' = rows \ {id}
             /\ records' = [records EXCEPT ![id] = BlankRow]
             /\ writtenBy' = [writtenBy EXCEPT ![id] = [f \in TrackedFields |-> 0]]
    /\ UNCHANGED <<storage, nextId, llm, run>>

\* ----------------------------------- DocumentService.processDocumentAsync
\* Variant: the first update resets the status to uploaded.
ProcessingUpdate_Uploaded == [status |-> UPLOADED]

\* Variant: the first update names no column.
ProcessingUpdate_Nothing == <<>>

ProcessingUpdate == [status |-> PROCESSING]

\* Variant: the final update leaves the language column out.
ProcessedUpdate_NoLanguage(extractedText, processingResult, embeddings) ==
    [status |-> PROCESSED,
     extractedText |-> Some(extractedText),
     summary |-> Some(processingResult.summary),
     keywords |-> Some(processingResult.keywords),
     category |-> Some(processingResult.category),
     confidence |-> Some(processingResult.confidence),
     sentiment |-> Some(processingResult.sentiment),
     extractedFields |-> Some(processingResult.extractedFields),
     embeddings |-> Some(embeddings)]

\* Variant: the final update writes the status and the extracted text only, the
\* annotation columns being left to a second statement.
ProcessedUpdate_StatusFirst(extractedText, processingResult, embeddings) ==
    [status |-> PROCESSED, extractedText |-> Some(extractedText)]

\* Variant: the final update also clears the metadata.
ProcessedUpdate_ClearsMetadata(extractedText, processingResult, embeddings) ==
    [status |-> PROCESSED,
     extractedText |-> Some(extractedText),
     summary |-> Some(processingResult.summary),
     keywords |-> Some(processingResult.keywords),
     category |-> Some(processingResult.category),
     confidence |-> Some(processingResult.confidence),
     language |-> Some(processingResult.language),
     sentiment |-> Some(processingResult.sentiment),
     extractedFields |-> Some(processingResult.extractedFields),
     embeddings |-> Some(embeddings),
     metadata |-> Null]

ProcessedUpdate(extractedText, processingResult, embeddings) ==
    [status |-> PROCESSED,
     extractedText |-> Some(extractedText),
     summary |-> Some(processingResult.summary),
     keywords |-> Some(processingResult.keywords),
     category |-> Some(processingResult.category),
     confidence |-> Some(processingResult.confidence),
     language |-> Some(processingResult.language),
     sentiment |-> Some(processingResult.sentiment),
     extractedFields |-> Some(processingResult.extractedFields),
     embeddings |-> Some(embeddings)]

\* Variant: the failure update sets the status and forgets the message.
FailedUpdate_NoMetadata(message) == [status |-> FAILED]

\* Variant: the failure update also resets the extracted text.
FailedUpdate_ClearsText(message) ==
    [status |-> FAILED, metadata |-> Some([error |-> message]), extractedText |-> Null]

\* Variant: the failure update also resets the summary.
FailedUpdate_ClearsSummary(message) ==
    [status |-> FAILED, metadata |-> Some([error |-> message]), summary |-> Null]

FailedUpdate(message) == [status |-> FAILED, metadata |-> Some([error |-> message])]

\* Variant: a throw inside the try block starts the invocation over.
Caught_Retry(r, message) == [run EXCEPT ![r].pc = "setProcessing"]

\* The throw of an awaited call inside the try block: control moves to the catch
\* clause with the error.
Caught(r, message) == [run EXCEPT ![r].pc = "catch", ![r].error = Some(message)]

\* Variant: the invocation goes on whether or not findOne found the record.
AfterReload_Continue(found) == "fetch"

\* What the invocation does with the result of findOne.
AfterReload(found) == IF found THEN "fetch" ELSE "aborted"

\* await update(documentId, {status: PROCESSING})
SetProcessing(r) ==
    /\ run[r].pc = "setProcessing"
    /\ \E dbOk \in BOOLEAN :
        IF dbOk
        THEN /\ records' = UpdateRecords(run[r].docId, ProcessingUpdate)
             /\ writtenBy' = UpdateWrittenBy(run[r].docId, ProcessingUpdate, r)
             /\ run' = [run EXCEPT ![r].pc = "reload"]
        ELSE /\ run' = Caught(r, QueryFailed)
             /\ UNCHANGED <<records, writtenBy>>
    /\ UNCHANGED <<rows, storage, nextId, llm, deleting>>

\* await findOne({where: {id}}); if (!document) return
Reload(r) ==
    /\ run[r].pc = "reload"
    /\ \E dbOk \in BOOLEAN :
        IF ~dbOk THEN run' = Caught(r, QueryFailed)
        ELSE LET found == run[r].docId \in rows
                 next == AfterReload(found)
             IN  IF next = "aborted"
                 THEN run' = [run EXCEPT ![r] = Finished(r, "aborted")]
                 ELSE IF found
                 THEN run' = [run EXCEPT ![r].pc = next,
                                         ![r].document =
                                            Some([storageKey |-> records[run[r].docId].storageKey,
                                                  mimeType |-> records[run[r].docId].mimeType])]
                 \* document is null: reading document.storageKey throws
                 ELSE run' = Caught(r, "Cannot read properties of null")
    /\ UNCHANGED <<rows, records, writtenBy, storage, nextId, llm, deleting>>

\* await storageService.getFile(document.storageKey)
Fetch(r) ==
    /\ run[r].pc = "fetch"
    /\ \E storageOk \in BOOLEAN :
        LET object == storage[Val(run[r].document).storageKey]
        IN  IF storageOk /\ ~IsNull(object)
            THEN run' = [run EXCEPT ![r].pc = "extract", ![r].fileBuffer = object]
            ELSE run' = Caught(r, FileRetrievalFailed)
    /\ UNCHANGED <<rows, records, writtenBy, storage, nextId, llm, deleting>>

\* await aiService.extractTextFromFile(fileBuffer, document.mimeType)
Extract(r) ==
    /\ run[r].pc = "extract"
    /\ \E lib \in {Ok(Val(run[r].fileBuffer)), Throw(OcrError)} :
        LET res == extractTextFromFile(Val(run[r].fileBuffer), Val(run[r].document).mimeType, lib)
        IN  IF res.ok
            THEN run' = [run EXCEPT ![r].pc = "annotate", ![r].extractedText = Some(res.value)]
            ELSE run' = Caught(r, res.error)
    /\ UNCHANGED <<rows, records, writtenBy, storage, nextId, llm, deleting>>

\* await aiService.processDocument(extractedText)
Annotate(r) ==
    /\ run[r].pc = "annotate"
    /\ \E replies \in LLMReplies :
        LET res == processDocument(llm, Val(run[r].extractedText), replies)
        IN  IF res.ok
            THEN run' = [run EXCEPT ![r].pc = "embed",
                                    ![r].processingResult = Some(res.value),
                                    ![r].rejected = llm /\ AnyRejected(replies)]
            ELSE run' = [Caught(r, res.error) EXCEPT ![r].rejected = llm /\ AnyRejected(replies)]
    /\ UNCHANGED <<rows, records, writtenBy, storage, nextId, llm, deleting>>

\* await aiService.generateEmbeddings(extractedText)
Embed(r) ==
    /\ run[r].pc = "embed"
    /\ run' = [run EXCEPT ![r].pc = "write",
                           ![r].embeddings = Some(generateEmbeddings(Val(run[r].extractedText)))]
    /\ UNCHANGED <<rows, records, writtenBy, storage, nextId, llm, deleting>>

\* await update(documentId, {status: PROCESSED, ...})
WriteProcessed(r) ==
    /\ run[r].pc = "write"
    /\ LET partial == ProcessedUpdate(Val(run[r].extractedText), Val(run[r].processingResult),
                                      Val(run[r].embeddings))
       IN  \E dbOk \in BOOLEAN :
            IF dbOk /\ ColumnsAccept(partial)
            THEN /\ records' = UpdateRecords(run[r].docId, partial)
                 /\ writtenBy' = UpdateWrittenBy(run[r].docId, partial, r)
                 /\ run' = [run EXCEPT ![r] = Finished(r, "processed")]
            ELSE /\ run' = Caught(r, QueryFailed)
                 /\ UNCHANGED <<records, writtenBy>>
    /\ UNCHANGED <<rows, storage, nextId, llm, deleting>>

\* catch (error): await update(documentId, {status: FAILED, metadata: {error: error.message}});
\* nothing catches a throw of this update.
Catch(r) ==
    /\ run[r].pc = "catch"
    /\ LET partial == FailedUpdate(Val(run[r].error))
       IN  \E dbOk \in BOOLEAN :
            IF dbOk
            THEN /\ records' = UpdateRecords(run[r].docId, partial)
                 /\ writtenBy' = UpdateWrittenBy(run[r].docId, partial, r)
                 /\ run' = [run EXCEPT ![r] = Finished(r, "failed")]
            ELSE /\ run' = [run EXCEPT ![r] = Finished(r, "crashed")]
                 /\ UNCHANGED <<records, writtenBy>>
    /\ UNCHANGED <<rows, storage, nextId, llm, deleting>>

processDocumentAsync(r) ==
    \/ SetProcessing(r)
    \/ Reload(r)
    \/ Fetch(r)
    \/ Extract(r)
    \/ Annotate(r)
    \/ Embed(r)
    \/ WriteProcessed(r)
    \/ Catch(r)

Next ==
    \/ \E file \in Files : uploadDocument(file)
    \/ \E id \in DocIds : reprocessDocument(id)
    \/ \E id \in DocIds : deleteDocumentFile(id) /\ UNCHANGED <<response, probe>>
    \/ \E id \in DocIds : deleteDocumentRecord(id) /\ UNCHANGED <<response, probe>>
    \/ \E r \in Runs : processDocumentAsync(r) /\ UNCHANGED <<response, probe>>

Spec == Init /\ [][Next]_vars

\* The same service with the callers of uploadDocument and reprocessDocument
\* watched. The request handlers do not read the annotation client; it is left
\* unconfigured (no API key), so every run ends in the catch clause.
InitRequests ==
    /\ rows = {}
    /\ records = [d \in DocIds |-> BlankRow]
    /\ writtenBy = [d \in DocIds |-> [f \in TrackedFields |-> 0]]
    /\ storage = [k \in DocIds |-> Null]
    /\ nextId = 1
    /\ llm = FALSE
    /\ run = [r \in Runs |-> IdleRun]
    /\ deleting = {}
    /\ response = NoResponse
    /\ probe = [fn |-> "requests"]

SpecRequests == InitRequests /\ [][Next]_vars

\* ================================================================== claims
Status(d) == records[d].status
RunsOn(d) == {r \in Runs : run[r].pc # "idle" /\ run[r].docId = d}

\* C1: in every reachable state, interleaved runs on one id included, a record
\* whose status is processed has non-null extractedText, summary, category,
\* confidence, language and sentiment.
C1_ProcessedHasAnnotations ==
    \A d \in rows :
        Status(d) = PROCESSED =>
            \A f \in {"extractedText", "summary", "category", "confidence", "language",
                       "sentiment"} : ~IsNull(records[d][f])

\* A processed record while a second run on the same id, started before the
\* first one finished, is about to record its failure.
C1_Witness ==
    \E d \in rows, r \in Runs :
        /\ Status(d) = PROCESSED
        /\ run[r].docId = d
        /\ run[r].pc = "catch"

\* C2: in every reachable state, interleaved runs and reprocessing included, a
\* record whose status is failed has metadata.error set to a non-empty message.
C2_FailedHasError ==
    \A d \in rows :
        Status(d) = FAILED =>
            /\ ~IsNull(records[d].metadata)
            /\ Val(records[d].metadata).error # ""

\* A failed record that still carries the results of an earlier successful run.
C2_Witness ==
    \E d \in rows :
        /\ Status(d) = FAILED
        /\ ~IsNull(records[d].summary)
        /\ writtenBy[d]["status"] # writtenBy[d]["summary"]

\* C3: every failure inside a run is caught and recorded, and no run ends with
\* an error that leaves processDocumentAsync uncaught.
C3_NoUncaughtError == \A r \in Runs : run[r].pc # "crashed"

StatusChanged(d) == d \in rows /\ d \in rows' /\ records'[d].status # records[d].status

\* C4 as stated: every change of status is any -> processing, processing ->
\* processed or processing -> failed, for any sequence of uploads, reprocess
\* requests and run steps.
C4_OnlyAllowedTransitions ==
    [][\A d \in DocIds :
        StatusChanged(d) =>
            \/ records'[d].status = PROCESSING
            \/ /\ records[d].status = PROCESSING
               /\ records'[d].status \in {PROCESSED, FAILED}]_vars

\* C4 as amended: every change of status is made by a run on that id: to
\* processing by its first update, to processed by its final update, to failed by
\* the update of its catch clause.  Status never returns to uploaded and never goes
\* from uploaded to processed; and when the writing run was the last one to write
\* the status, the change is processing -> processed or processing -> failed.
C4_TransitionsByRuns ==
    [][\A d \in DocIds :
        StatusChanged(d) =>
            /\ records'[d].status # UPLOADED
            /\ ~(records[d].status = UPLOADED /\ records'[d].status = PROCESSED)
            /\ \E r \in Runs :
                /\ run[r].docId = d
                /\ run'[r] # run[r]
                /\ records'[d].status = PROCESSING => run[r].pc = "setProcessing"
                /\ records'[d].status = PROCESSED => run[r].pc = "write"
                /\ records'[d].status = FAILED => run[r].pc = "catch"
                /\ writtenBy[d]["status"] = r =>
                    /\ records[d].status = PROCESSING
                    /\ records'[d].status \in {PROCESSED, FAILED}]_vars

\* One run has ended in processed and another, on the same id, has written failed
\* over it.
C4_Witness ==
    \E d \in rows, r1 \in Runs, r2 \in Runs :
        /\ r1 # r2
        /\ run[r1].docId = d /\ run[r1].pc = "processed"
        /\ run[r2].docId = d /\ run[r2].pc = "failed"
        /\ Status(d) = FAILED
        /\ writtenBy[d]["status"] = r2
        /\ writtenBy[d]["summary"] = r1

\* C5: once every run started on a document that still exists has finished, the
\* document's status is processed or failed.
C5_FinishedRunsLeaveTerminalStatus ==
    \A d \in rows :
        (RunsOn(d) # {} /\ \A r \in RunsOn(d) : run[r].pc \in Terminal)
            => Status(d) \in {PROCESSED, FAILED}

AnnotationColumns ==
    {"summary", "category", "confidence", "keywords", "sentiment", "language",
     "extractedFields"}

\* C6: if any one of the four parallel annotation calls is rejected, the run goes
\* to its catch clause and ends without changing summary, category, confidence,
\* keywords, sentiment, language or extractedFields of any record.
C6_RejectedCallWritesNothing ==
    [][\A r \in Runs :
        /\ (run'[r].rejected /\ ~run[r].rejected) => run'[r].pc = "catch"
        /\ (run[r].rejected /\ run'[r] # run[r]) =>
            /\ run'[r].pc \in {"failed", "crashed"}
            /\ \A d \in DocIds, f \in AnnotationColumns : records'[d][f] = records[d][f]]_vars

\* A run with a rejected annotation call has ended in failed on a record that has
\* no annotation.
C6_Witness ==
    \E d \in rows, r \in Runs :
        /\ run[r].docId = d /\ run[r].pc = "failed" /\ run[r].rejected
        /\ Status(d) = FAILED
        /\ \A f \in AnnotationColumns : IsNull(records[d][f])

\* C7: a record whose status is processed has its status and all nine result
\* columns written by one and the same run, under any interleaving of runs.
C7_ProcessedFromOneRun ==
    \A d \in rows :
        Status(d) = PROCESSED =>
            \E r \in Runs : \A f \in TrackedFields : writtenBy[d][f] = r

\* Two runs on one id have both ended in processed; the record is the later one's.
C7_Witness ==
    \E d \in rows, r1 \in Runs, r2 \in Runs :
        /\ r1 # r2
        /\ run[r1].docId = d /\ run[r1].pc = "processed"
        /\ run[r2].docId = d /\ run[r2].pc = "processed"
        /\ Status(d) = PROCESSED
        /\ writtenBy[d]["status"] = r2

\* A run in its catch clause because annotation failed after extraction succeeded.
AnnotationFailedAfterExtraction(r) ==
    /\ run[r].pc = "catch"
    /\ ~IsNull(run[r].extractedText)
    /\ IsNull(run[r].processingResult)

\* C8 as stated: when annotation fails after extraction succeeded, the text
\* extracted in that run is in the record's extractedText once the run has ended
\* in failed.
C8_ExtractedTextRetained ==
    [][\A r \in Runs :
        (AnnotationFailedAfterExtraction(r) /\ run'[r].pc = "failed" /\ run[r].docId \in rows)
            => records'[run[r].docId].extractedText = run[r].extractedText]_vars

\* C8 as amended: when annotation fails after extraction succeeded, the run ends
\* in failed without writing the text it extracted: the record's extractedText is
\* what it was before the failure update (null on a first run).
C8_ExtractedTextNotWritten ==
    [][\A r \in Runs :
        (AnnotationFailedAfterExtraction(r) /\ run'[r].pc = "failed")
            => \A d \in DocIds : records'[d].extractedText = records[d].extractedText]_vars

\* A run whose annotation was rejected after it extracted the text has ended in
\* failed, and the record has no extracted text.
C8_Witness ==
    \E d \in rows, r \in Runs :
        /\ run[r].docId = d /\ run[r].pc = "failed" /\ run[r].rejected
        /\ writtenBy[d]["status"] = r
        /\ IsNull(records[d].extractedText)

\* C9: the steps of a run other than its successful final update change only
\* status and metadata: every other column of every record keeps its value.
C9_FailingRunKeepsResults ==
    [][\A r \in Runs :
        (run[r].pc # "idle" /\ run'[r] # run[r] /\ run'[r].pc # "processed") =>
            \A d \in DocIds, f \in (DOMAIN BlankRow) \ {"status", "metadata"} :
                records'[d][f] = records[d][f]]_vars

\* A reprocess has ended in failed and the record still holds the results an
\* earlier run wrote.
C9_Witness ==
    \E d \in rows, r \in Runs :
        /\ run[r].docId = d /\ run[r].pc = "failed"
        /\ Status(d) = FAILED
        /\ writtenBy[d]["status"] = r
        /\ writtenBy[d]["extractedText"] \notin {0, r}
        /\ \A f \in ResultFields : ~IsNull(records[d][f])

\* C10: a run that finds no record when it reloads it ends there: it records no
\* error, goes on to no storage, extraction or annotation call, writes nothing, and
\* takes no further step.
C10_AbsentRecordAbortsSilently ==
    [][\A r \in Runs :
        /\ ( /\ run[r].pc = "reload"
             /\ run[r].docId \notin rows
             /\ run'[r] # run[r]
             /\ ~(run'[r].pc = "catch" /\ run'[r].error = Some(QueryFailed)) )
            => /\ run'[r].pc = "aborted"
               /\ IsNull(run'[r].error)
               /\ UNCHANGED <<rows, records, writtenBy, storage>>
        /\ run[r].pc = "aborted" => run'[r] = run[r]]_vars

\* A run has ended at its reload because the record was deleted in the meantime.
C10_Witness == \E r \in Runs : run[r].pc = "aborted" /\ run[r].docId \notin rows


\* ---------------------------------------------------------------- requests
\* The step in which invocation r is started by a request.
Started(r) == run[r].pc = "idle" /\ run'[r].pc = "setProcessing"
Dto == response.result.value

\* C11: the request that starts a run answers with the record as it was before
\* that run wrote anything, and answers while the run is still at its start: an
\* upload's response has status uploaded and no results, a reprocess response
\* equals the record of the state before the request, which the request step
\* leaves as it was.
C11_ResponseIsSnapshotBeforeRun ==
    [][\A r \in Runs : Started(r) =>
        /\ response'.result.ok
        /\ response'.result.value.id = run'[r].docId
        /\ writtenBy' = writtenBy
        /\ response'.op = "upload" =>
            /\ response'.result.value.status = UPLOADED
            /\ \A f \in {"summary", "keywords", "category", "confidence", "language",
                         "sentiment", "metadata", "extractedFields"} :
                    IsNull(response'.result.value[f])
        /\ response'.op = "reprocess" =>
            /\ records' = records
            /\ \A f \in DOMAIN response'.result.value \ {"id"} :
                    response'.result.value[f] = records[run'[r].docId][f]]_vars

\* A reprocess request was answered with the failed record of the earlier run
\* while the run it started has not written yet.
C11_Witness ==
    /\ response.op = "reprocess"
    /\ response.result.ok
    /\ Dto.status = FAILED
    /\ ~IsNull(Dto.metadata)
    /\ records[Dto.id].status = FAILED
    /\ \E r \in Runs : run[r].pc = "setProcessing" /\ run[r].docId = Dto.id

\* C12: a reprocess request for an id without a record throws to its caller,
\* with the not-found error whenever the lookup itself was answered, and leaves
\* the records, the storage and the invocations as they were.
C12_ReprocessAbsentIdNotFound ==
    [][(response' # response /\ response'.op = "reprocess" /\ Val(response'.arg) \notin rows) =>
        /\ ~response'.result.ok
        /\ response'.result.error # QueryFailed => response'.result.error = NotFound
        /\ UNCHANGED system]_vars

C12_Witness ==
    /\ response.op = "reprocess"
    /\ response.result.error = NotFound
    /\ Val(response.arg) \notin rows
    /\ \A r \in Runs : run[r].pc = "idle"

\* C13: an upload whose media type is not allowed or whose size is above the
\* limit throws to its caller; no object is stored, no record created, no
\* invocation started.
C13_InvalidUploadRejected ==
    [][(/\ response' # response
        /\ response'.op = "upload"
        /\ \/ Val(response'.arg).mimetype \notin {PDF, DOCX, MSWORD, TEXT, JPEG, PNG, GIF}
           \/ Val(response'.arg).size > maxSize) =>
        /\ ~response'.result.ok
        /\ UNCHANGED system]_vars

C13_Witness ==
    /\ response.op = "upload"
    /\ ~response.result.ok
    /\ Val(response.arg).mimetype = PDF
    /\ Val(response.arg).size > maxSize
    /\ rows = {}
    /\ \A k \in DocIds : IsNull(storage[k])
    /\ \A r \in Runs : run[r].pc = "idle"


\* ------------------------------------------------ extractTextFromFile alone
\* One call of extractTextFromFile on a buffer with a declared media type; lib
\* is what the extraction library does with the buffer.
ExtractBuffers == {Text1, Text2, <<>>}
LibraryOutcomes(buffer) == {Ok(buffer), Ok(<<>>), Throw(OcrError)}

InitExtract ==
    /\ rows = {}
    /\ records = [d \in DocIds |-> BlankRow]
    /\ writtenBy = [d \in DocIds |-> [f \in TrackedFields |-> 0]]
    /\ storage = [k \in DocIds |-> Null]
    /\ nextId = 1
    /\ llm = FALSE
    /\ run = [r \in Runs |-> IdleRun]
    /\ deleting = {}
    /\ response = NoResponse
    /\ \E buffer \in ExtractBuffers, mimeType \in MimeTypes :
       \E lib \in LibraryOutcomes(buffer) :
            probe = [fn |-> "extractTextFromFile", buffer |-> buffer,
                     mimeType |-> mimeType, lib |-> lib, result |-> Null]

ExtractCall ==
    /\ probe.fn = "extractTextFromFile"
    /\ IsNull(probe.result)
    /\ probe' = [probe EXCEPT !.result =
                    Some(extractTextFromFile(probe.buffer, probe.mimeType, probe.lib))]
    /\ UNCHANGED <<system, response>>

NextExtract == ExtractCall

SpecExtract == InitExtract /\ [][NextExtract]_vars

Extracted == probe.fn = "extractTextFromFile" /\ ~IsNull(probe.result)

\* C14: for a media type that takes none of the pdf, word, plain-text and image
\* branches the call fails with the unsupported-type error, which is not the
\* error an extractor failure gives.
C14_UnsupportedTypeDistinguishable ==
    (Extracted /\ ExtractorFor(probe.mimeType) = "none") =>
        /\ ~Val(probe.result).ok
        /\ Val(probe.result).error = UnsupportedFileType
        /\ Val(probe.result).error # ExtractionFailed

\* C15: for every media type an extraction library handles, a failure of the
\* library leaves the call as the wrapped 'Text extraction failed' error and
\* never as the library's own error.
C15_ExtractorFailureWrapped ==
    (/\ Extracted
     /\ ExtractorFor(probe.mimeType) \in {"pdfParse", "mammoth", "textract"}
     /\ ~probe.lib.ok) =>
        /\ ~Val(probe.result).ok
        /\ Val(probe.result).error = ExtractionFailed


\* ============================================================ SearchService
\* Here a string is spelled out: every atom is one character, so Len is the
\* length of the string and IncludesStr is String.prototype.includes.
IncludesStr(s, t) == \E i \in 0..(Len(s) - Len(t)) : SubSeq(s, i + 1, i + Len(t)) = t

Min(a, b) == IF a < b THEN a ELSE b

\* Array.prototype.slice(0, n)
SliceTo(s, n) == SubSeq(s, 1, Min(n, Len(s)))

Reverse(s) == [i \in 1..Len(s) |-> s[Len(s) + 1 - i]]

\* query.split(/\s+/).filter(word => word.length > 2)
QueryWords(query) == SelectSeq(SplitWhitespace(query), LAMBDA w : Len(w) > 2)

\* The number of query words for which the inner loop finds a match.
Matches(queryWords, words) ==
    Cardinality({i \in 1..Len(queryWords) :
        \E j \in 1..Len(words) :
            IncludesStr(words[j], queryWords[i]) \/ IncludesStr(queryWords[i], words[j])})

\* A similarity is the fraction num / den, den being 1 when there is no query word.
Fraction(matches, queryWords) ==
    IF Len(queryWords) > 0 THEN [num |-> matches, den |-> Len(queryWords)]
    ELSE [num |-> 0, den |-> 1]

calculateTextSimilarity(query, text) ==
    LET queryWords == QueryWords(query)
        textWords == SelectSeq(SplitWhitespace(text), LAMBDA w : Len(w) > 2)
    IN  Fraction(Matches(queryWords, textWords), queryWords)

calculateKeywordMatch(query, keywords) ==
    LET queryWords == QueryWords(query)
        lowered == [j \in 1..Len(keywords) |-> ToLowerCase(keywords[j])]
    IN  Fraction(Matches(queryWords, lowered), queryWords)

\* text.split(/[.!?]+/): runs of the three marks separate.
IsSentenceEnd(a) == a \in {".", "!", "?"}

RECURSIVE SplitSentencesAcc(_, _, _)
SplitSentencesAcc(s, cur, inGap) ==
    IF s = <<>> THEN <<cur>>
    ELSE IF IsSentenceEnd(Head(s))
         THEN IF inGap THEN SplitSentencesAcc(Tail(s), cur, TRUE)
              ELSE <<cur>> \o SplitSentencesAcc(Tail(s), <<>>, TRUE)
    ELSE SplitSentencesAcc(Tail(s), Append(cur, Head(s)), FALSE)

SplitSentences(s) == SplitSentencesAcc(s, <<>>, FALSE)

findHighlights(query, text) ==
    LET queryWords == QueryWords(query)
        sentences == SelectSeq(SplitSentences(text), LAMBDA x : Len(Trim(x)) > 0)
        matching == SelectSeq(sentences, LAMBDA x :
                        \E i \in 1..Len(queryWords) :
                            IncludesStr(ToLowerCase(x), queryWords[i]))
    IN  [i \in 1..Len(matching) |-> Trim(matching[i])]

\* Scores are kept as integers: the score of the code times ScoreUnit, which is
\* 1000 times the number of query words (1000 when there is none).  Confidence
\* is in hundredths, so confidence * 0.1 is confidence thousandths.
QueryWordCount(queryLower) ==
    IF Len(QueryWords(queryLower)) > 0 THEN Len(QueryWords(queryLower)) ELSE 1
ScoreUnit(queryLower) == 1000 * QueryWordCount(queryLower)

TextWeight == 400
SummaryWeight == 300
KeywordWeight == 200

\* A string or number column is truthy when it is neither null nor '' / 0; an
\* array column when it is not null.
TruthyString(x) == ~IsNull(x) /\ Val(x) # <<>>
TruthyNumber(x) == ~IsNull(x) /\ Val(x) # 0

TextScore(queryLower, document) ==
    IF TruthyString(document.extractedText)
    THEN TextWeight * calculateTextSimilarity(queryLower,
                            ToLowerCase(Val(document.extractedText))).num
    ELSE 0

SummaryScore(queryLower, document) ==
    IF TruthyString(document.summary)
    THEN SummaryWeight * calculateTextSimilarity(queryLower,
                            ToLowerCase(Val(document.summary))).num
    ELSE 0

KeywordScore(queryLower, document) ==
    IF ~IsNull(document.keywords)
    THEN KeywordWeight * calculateKeywordMatch(queryLower, Val(document.keywords)).num
    ELSE 0

ConfidenceBoost_Ignored(queryLower, document) == 0

ConfidenceBoost(queryLower, document) ==
    IF TruthyNumber(document.confidence)
    THEN Val(document.confidence) * QueryWordCount(queryLower)
    ELSE 0

Score(queryLower, document) ==
    TextScore(queryLower, document) + SummaryScore(queryLower, document)
        + KeywordScore(queryLower, document) + ConfidenceBoost(queryLower, document)

Highlights(queryLower, document) ==
    IF TruthyString(document.extractedText)
    THEN findHighlights(queryLower, Val(document.extractedText))
    ELSE <<>>

MaxHighlights == 3

LimitHighlights_All(highlights) == highlights

\* highlights.slice(0, 3)
LimitHighlights(highlights) == SliceTo(highlights, MaxHighlights)

Kept_NonNegative(score) == score >= 0

\* if (score > 0)
Kept(score) == score > 0

\* The loop over the documents: one result for each document kept, in the
\* order of the documents.
RECURSIVE Scored(_, _)
Scored(queryLower, documents) ==
    IF documents = <<>> THEN <<>>
    ELSE LET document == Head(documents)
             score == Score(queryLower, document)
         IN  (IF Kept(score)
              THEN <<[document |-> document, score |-> score,
                      highlights |-> LimitHighlights(Highlights(queryLower, document))]>>
              ELSE <<>>) \o Scored(queryLower, Tail(documents))

\* The place of x in a list sorted by (a, b) => b.score - a.score: after every
\* result whose score is not lower (the sort is stable).
RECURSIVE Insert(_, _)
Insert(sorted, x) ==
    IF sorted = <<>> THEN <<x>>
    ELSE IF Head(sorted).score >= x.score THEN <<Head(sorted)>> \o Insert(Tail(sorted), x)
    ELSE <<x>> \o sorted

RECURSIVE SortByScore(_)
SortByScore(results) ==
    IF results = <<>> THEN <<>>
    ELSE Insert(SortByScore(SubSeq(results, 1, Len(results) - 1)), results[Len(results)])

Ranked_TruncatedFirst(results, limit) == SortByScore(SliceTo(results, limit))

\* results.sort(...).slice(0, limit)
Ranked(results, limit) == SliceTo(SortByScore(results), limit)

performSemanticSearch(query, documents, limit) ==
    Ranked(Scored(ToLowerCase(query), documents), limit)


DefaultLimit == 10
SearchFailed == "Search operation failed"

IsProcessed_Any(document) == TRUE

\* where('document.status = :status', { status: 'processed' })
IsProcessed(document) == document.status = PROCESSED

\* The optional andWhere clauses; a null column satisfies none of them.
PassesFilters(document, searchQuery) ==
    /\ TruthyString(searchQuery.category) => document.category = searchQuery.category
    /\ (~IsNull(searchQuery.language) /\ Val(searchQuery.language) # "") =>
            document.language = searchQuery.language
    /\ TruthyNumber(searchQuery.minConfidence) =>
            /\ ~IsNull(document.confidence)
            /\ Val(document.confidence) >= Val(searchQuery.minConfidence)

LimitOf(searchQuery) ==
    IF IsNull(searchQuery.limit) THEN DefaultLimit ELSE Val(searchQuery.limit)

\* The query builder on a table given in order of creation: the rows that
\* satisfy the where clauses, newest first, at most limit * 2 of them.
Candidates(table, searchQuery) ==
    SliceTo(SelectSeq(Reverse(table),
                      LAMBDA document : IsProcessed(document)
                                            /\ PassesFilters(document, searchQuery)),
            LimitOf(searchQuery) * 2)

searchDocuments(table, searchQuery, dbOk) ==
    IF dbOk
    THEN Ok(performSemanticSearch(searchQuery.query, Candidates(table, searchQuery),
                                  LimitOf(searchQuery)))
    ELSE Throw(SearchFailed)

\* ------------------------------------------------- searchDocuments alone
\* Rows in the table when the query is made.
MaxTable == 3

cat == <<"c", "a", "t">>
Cat == <<"C", "a", "t">>
dog == <<"d", "o", "g">>

\* "Cat. a cat! dog? cat a. cats. Cat"
CatText ==
    Cat \o <<".", " ", "a", " ">> \o cat \o <<"!", " ">> \o dog \o <<"?", " ">>
        \o cat \o <<" ", "a", ".", " ">> \o cat \o <<"s", ".", " ">> \o Cat
\* "Dog ran"
DogText == <<"D", "o", "g", " ", "r", "a", "n">>

CatDocument(id, status, confidence) ==
    [id |-> id, status |-> status, extractedText |-> Some(CatText),
     summary |-> Some(<<"a", " ">> \o cat), keywords |-> Some(<<Cat>>),
     category |-> Some(<<"invoice">>), language |-> Some("en"),
     confidence |-> confidence]

DogDocument(id, confidence) ==
    [id |-> id, status |-> PROCESSED, extractedText |-> Some(DogText),
     summary |-> Some(dog), keywords |-> Some(<<dog>>),
     category |-> Some(<<"report">>), language |-> Some("en"),
     confidence |-> confidence]

\* Records the table may hold: processed ones with results; one whose text
\* was empty; one being reprocessed after an earlier success.
Pool ==
    {CatDocument(1, PROCESSED, Some(50)),
     CatDocument(2, PROCESSED, Some(90)),
     CatDocument(3, PROCESSED, Some(50)),
     DogDocument(4, Null),
     [id |-> 5, status |-> PROCESSED, extractedText |-> Some(<<>>), summary |-> Null,
      keywords |-> Some(<<>>), category |-> Some(<<"other">>), language |-> Some("en"),
      confidence |-> Some(0)],
     CatDocument(6, PROCESSING, Some(90)),
     DogDocument(7, Some(0 - 50))}

Tables ==
    {t \in UNION {[1..n -> Pool] : n \in 0..MaxTable} :
        \A i, j \in 1..Len(t) : i # j => t[i].id # t[j].id}

SearchQueries ==
    {[query |-> Cat, limit |-> Some(1), category |-> Null, language |-> Null,
      minConfidence |-> Null],
     [query |-> cat \o <<" ">> \o dog, limit |-> Some(2), category |-> Null,
      language |-> Null, minConfidence |-> Null],
     [query |-> <<"a", "t">>, limit |-> Null, category |-> Null, language |-> Null,
      minConfidence |-> Some(0)],
     [query |-> cat \o <<"s">>, limit |-> Some(2), category |-> Null, language |-> Null,
      minConfidence |-> Some(60)],
     [query |-> dog, limit |-> Some(3), category |-> Some(<<"report">>),
      language |-> Some("en"), minConfidence |-> Null]}

InitSearch ==
    /\ rows = {}
    /\ records = [d \in DocIds |-> BlankRow]
    /\ writtenBy = [d \in DocIds |-> [f \in TrackedFields |-> 0]]
    /\ storage = [k \in DocIds |-> Null]
    /\ nextId = 1
    /\ llm = FALSE
    /\ run = [r \in Runs |-> IdleRun]
    /\ deleting = {}
    /\ response = NoResponse
    /\ \E table \in Tables, searchQuery \in SearchQueries :
            probe = [fn |-> "searchDocuments", table |-> table,
                     searchQuery |-> searchQuery, result |-> Null]

SearchCall ==
    /\ probe.fn = "searchDocuments"
    /\ IsNull(probe.result)
    /\ \E dbOk \in BOOLEAN :
            probe' = [probe EXCEPT !.result =
                        Some(searchDocuments(probe.table, probe.searchQuery, dbOk))]
    /\ UNCHANGED <<system, response>>

NextSearch == SearchCall

SpecSearch == InitSearch /\ [][NextSearch]_vars


\* ------------------------------------------------------------------ search
Searched == probe.fn = "searchDocuments" /\ ~IsNull(probe.result) /\ Val(probe.result).ok
Results == Val(probe.result).value
ResultIds == {Results[i].document.id : i \in 1..Len(Results)}
PositionOf(id) == CHOOSE i \in 1..Len(Results) : Results[i].document.id = id

\* What the ranker was given: the candidates, in the order they arrived.
Arrived == Candidates(probe.table, probe.searchQuery)
ArrivalOf(id) == CHOOSE i \in 1..Len(Arrived) : Arrived[i].id = id

Range(s) == {s[i] : i \in 1..Len(s)}

\* The query tokens of length > 2, lower-cased.
QueryTokens == {w \in Range(SplitWhitespace(ToLowerCase(probe.searchQuery.query))) : Len(w) > 2}

\* The tokens of a text column (none when it is null), lower-cased.
TokensOf(column) ==
    IF IsNull(column) THEN {}
    ELSE {w \in Range(SplitWhitespace(ToLowerCase(Val(column)))) : w # <<>>}

KeywordsOf(document) ==
    IF IsNull(document.keywords) THEN {}
    ELSE {ToLowerCase(k) : k \in Range(Val(document.keywords))} \ {<<>>}

\* No query token substring-matches, in either direction, a token of the text,
\* of the summary or of the keyword list.
NoOverlap(document) ==
    \A q \in QueryTokens :
        \A w \in TokensOf(document.extractedText) \cup TokensOf(document.summary)
                    \cup KeywordsOf(document) :
            ~IncludesStr(w, q) /\ ~IncludesStr(q, w)

\* C16: every result of a search has a score above 0, and a candidate without
\* any overlap with the query whose confidence is 0 or null is not among the
\* results.
C16_ZeroScoreExcluded ==
    Searched =>
        /\ \A i \in 1..Len(Results) : Results[i].score > 0
        /\ \A j \in 1..Len(Arrived) :
            (/\ NoOverlap(Arrived[j])
             /\ IsNull(Arrived[j].confidence) \/ Val(Arrived[j].confidence) = 0) =>
                Arrived[j].id \notin ResultIds

\* A search for "Cat" had the dog document, which has no confidence, among its
\* two candidates and returned only the other.
C16_Witness ==
    /\ Searched
    /\ probe.searchQuery.query = Cat
    /\ {Arrived[j].id : j \in 1..Len(Arrived)} = {1, 4}
    /\ ResultIds = {1}

\* C17: of two candidates with the same text, summary and keywords, when the
\* one with the lower confidence is returned, the one with the higher
\* confidence is returned too, at an earlier position.
C17_HigherConfidenceRanksFirst ==
    Searched =>
        \A a, b \in 1..Len(Arrived) :
            (/\ Arrived[a].extractedText = Arrived[b].extractedText
             /\ Arrived[a].summary = Arrived[b].summary
             /\ Arrived[a].keywords = Arrived[b].keywords
             /\ ~IsNull(Arrived[a].confidence) /\ ~IsNull(Arrived[b].confidence)
             /\ Val(Arrived[a].confidence) > Val(Arrived[b].confidence)
             /\ Arrived[b].id \in ResultIds) =>
                /\ Arrived[a].id \in ResultIds
                /\ PositionOf(Arrived[a].id) < PositionOf(Arrived[b].id)

\* The candidate with confidence 0.5 arrived before the one with 0.9 and the
\* same content; both are returned, the one with 0.9 first.
C17_Witness ==
    /\ Searched
    /\ Len(Arrived) = 2 /\ Arrived[1].id = 1 /\ Arrived[2].id = 2
    /\ Len(Results) = 2
    /\ Results[1].document.id = 2 /\ Results[2].document.id = 1

\* C18: the results are in descending order of score, results of equal score
\* in the order their candidates arrived; they are as many as the limit allows
\* and no candidate left out scores above a result.
C18_SortedThenTruncated ==
    Searched =>
        /\ \A i, j \in 1..Len(Results) : i < j =>
            /\ Results[i].score >= Results[j].score
            /\ Results[i].score = Results[j].score =>
                    ArrivalOf(Results[i].document.id) < ArrivalOf(Results[j].document.id)
        /\ Len(Results) =
                Min(LimitOf(probe.searchQuery),
                    Cardinality({j \in 1..Len(Arrived) :
                        Score(ToLowerCase(probe.searchQuery.query), Arrived[j]) > 0}))
        /\ \A j \in 1..Len(Arrived), i \in 1..Len(Results) :
                Arrived[j].id \notin ResultIds =>
                    Score(ToLowerCase(probe.searchQuery.query), Arrived[j]) <= Results[i].score

\* Three candidates arrived, the lowest-scoring one first; the two results are
\* the two of equal score in their order of arrival, the third is cut off.
C18_Witness ==
    /\ Searched
    /\ LimitOf(probe.searchQuery) = 2
    /\ Len(Arrived) = 3 /\ Arrived[1].id = 4 /\ Arrived[2].id = 1 /\ Arrived[3].id = 3
    /\ Len(Results) = 2
    /\ Results[1].document.id = 1 /\ Results[2].document.id = 3
    /\ Results[1].score = Results[2].score

\* The sentences of a text column that contain a query token, trimmed, in the
\* order of the text.
MatchingSentences(column) ==
    IF IsNull(column) THEN <<>>
    ELSE LET sentences == SplitSentences(Val(column))
         IN  SelectSeq([k \in 1..Len(sentences) |-> Trim(sentences[k])],
                       LAMBDA x : x # <<>> /\ \E q \in QueryTokens :
                                                IncludesStr(ToLowerCase(x), q))

\* C19: a result has at most 3 highlights, and they are the first sentences of
\* the extracted text that contain a query token, in the order of the text.
C19_FirstThreeHighlights ==
    Searched =>
        \A i \in 1..Len(Results) :
            LET highlights == Results[i].highlights
                matching == MatchingSentences(Results[i].document.extractedText)
            IN  /\ Len(highlights) <= 3
                /\ Len(highlights) = Min(3, Len(matching))
                /\ \A k \in 1..Len(highlights) : highlights[k] = matching[k]

\* A text with five sentences that contain "cat" and one in between that does
\* not: the highlights are the first, second and fourth sentence.
C19_Witness ==
    /\ Searched
    /\ \E i \in 1..Len(Results) :
        /\ Len(MatchingSentences(Results[i].document.extractedText)) = 5
        /\ Results[i].highlights = <<Cat, <<"a", " ">> \o cat, cat \o <<" ", "a">>>>

\* C20: every result of a search is a row whose status in the table the query
\* read is processed.
C20_OnlyProcessedReturned ==
    Searched =>
        \A i \in 1..Len(Results) :
            \E j \in 1..Len(probe.table) :
                /\ probe.table[j].id = Results[i].document.id
                /\ probe.table[j].status = PROCESSED

\* The table held a record being reprocessed after an earlier success, with
\* its earlier results; the search returned the other record only.
C20_Witness ==
    /\ Searched
    /\ \E j \in 1..Len(probe.table) :
        /\ probe.table[j].id = 6
        /\ probe.table[j].status = PROCESSING
        /\ ~IsNull(probe.table[j].summary)
    /\ ResultIds = {2}


\* --------------------------------------------------------- order of a run
\* The moves of one invocation from one await to the next that follow the text
\* of processDocumentAsync downwards.
InOrder ==
    {<<"idle", "setProcessing">>, <<"setProcessing", "reload">>, <<"reload", "fetch">>,
     <<"fetch", "extract">>, <<"extract", "annotate">>, <<"annotate", "embed">>,
     <<"embed", "write">>, <<"write", "processed">>, <<"reload", "aborted">>}

\* The moves out of the try block and out of the catch clause.
Failing ==
    {<<p, "catch">> : p \in {"setProcessing", "reload", "fetch", "extract", "annotate",
                             "write"}}
        \cup {<<"catch", "failed">>, <<"catch", "crashed">>}

\* C21: an invocation goes through its steps in the order processing write,
\* reload, fetch, extract, annotate, embeddings, final write, each step having
\* the result of the one before; it reaches the reload only by the step that
\* writes status processing to the record.
C21_StepsInOrder ==
    [][\A r \in Runs : run'[r].pc # run[r].pc =>
        /\ <<run[r].pc, run'[r].pc>> \in InOrder \cup Failing
        /\ run'[r].pc = "reload" =>
            (run[r].docId \in rows => records'[run[r].docId].status = PROCESSING)
        /\ run'[r].pc = "extract" => ~IsNull(run'[r].document) /\ ~IsNull(run'[r].fileBuffer)
        /\ run'[r].pc = "annotate" => ~IsNull(run'[r].extractedText)
        /\ run'[r].pc = "embed" => ~IsNull(run'[r].processingResult)
        /\ run'[r].pc = "write" => ~IsNull(run'[r].embeddings)]_vars

\* An invocation is at its final write, with everything the earlier steps
\* gave it, and the record carries the status it wrote first.
C21_Witness ==
    \E r \in Runs :
        /\ run[r].pc = "write"
        /\ ~IsNull(run[r].fileBuffer) /\ ~IsNull(run[r].extractedText)
        /\ ~IsNull(run[r].processingResult) /\ ~IsNull(run[r].embeddings)
        /\ records[run[r].docId].status = PROCESSING
        /\ writtenBy[run[r].docId]["status"] = r

RunLocals(r) ==
    <<run[r].document, run[r].fileBuffer, run[r].extractedText, run[r].processingResult,
      run[r].embeddings>>

\* C22: a step that throws gives the invocation nothing and ends the try block;
\* from the catch clause the invocation only finishes, a finished invocation
\* does nothing more, and no step is entered a second time.
C22_FailureStopsRun ==
    [][\A r \in Runs :
        /\ (run[r].pc # "catch" /\ run'[r].pc = "catch") => RunLocals(r)' = RunLocals(r)
        /\ run[r].pc = "catch" => run'[r].pc \in {"catch", "failed", "crashed"}
        /\ run[r].pc \in Terminal => run'[r] = run[r]
        /\ run'[r].pc # run[r].pc =>
            /\ <<run'[r].pc, run[r].pc>> \notin InOrder \cup Failing
            /\ run'[r].pc \notin {"idle", "setProcessing"} \/ run[r].pc = "idle"]_vars

\* An invocation whose extraction failed is in the catch clause: it holds the
\* file and neither text nor annotations.
C22_Witness ==
    \E r \in Runs :
        /\ run[r].pc = "catch"
        /\ run[r].error = Some(ExtractionFailed)
        /\ ~IsNull(run[r].fileBuffer)
        /\ IsNull(run[r].extractedText) /\ IsNull(run[r].processingResult)


\* C23: the status of a record is that of the invocation that wrote it last:
\* processed when that invocation ended with its final write, failed when it
\* ended in the catch clause, and then the result columns are still those the
\* final write of another invocation put there.
C23_LastWriterDecidesStatus ==
    \A d \in rows :
        LET w == writtenBy[d]["status"]
        IN  w # 0 =>
            /\ run[w].pc = "processed" => Status(d) = PROCESSED
            /\ run[w].pc = "failed" =>
                /\ Status(d) = FAILED
                /\ \A f \in ResultFields : writtenBy[d][f] # 0 =>
                    /\ run[writtenBy[d][f]].pc = "processed"
                    /\ ~IsNull(records[d][f])

\* The first invocation was still in flight when the second one, started by a
\* reprocess request, made its final write; the first then recorded its
\* failure: status failed next to the second invocation's results.
C23_Witness ==
    /\ 1 \in rows
    /\ run[1].pc = "failed" /\ run[2].pc = "processed"
    /\ writtenBy[1]["status"] = 1
    /\ writtenBy[1]["summary"] = 2
    /\ records[1].status = FAILED
    /\ ~IsNull(records[1].summary)


\* C26: no step other than an upload gives an id without a record a record, and
\* none writes anything under that id: the updates of an invocation whose
\* document was deleted change nothing.
C26_DeletedStaysAbsent ==
    [][\A d \in DocIds : (d \notin rows /\ nextId' = nextId) =>
        /\ d \notin rows'
        /\ records'[d] = records[d]
        /\ records'[d] = BlankRow]_vars

\* The document was deleted while an invocation on it was in flight: the
\* invocation is at its final write and there is no record.
C26_Witness ==
    \E r \in Runs :
        /\ run[r].pc = "write"
        /\ run[r].docId \notin rows
        /\ IsNull(storage[run[r].docId])
        /\ records[run[r].docId] = BlankRow

\* C27: the step that makes a record processed leaves its metadata as it was.
C27_SuccessKeepsMetadata ==
    [][\A d \in DocIds :
        (d \in rows /\ records'[d].status = PROCESSED /\ records'[d] # records[d]) =>
            records'[d].metadata = records[d].metadata]_vars

\* A run failed, a later one succeeded: the record is processed, every column
\* from the second run, and metadata.error still holds the first run's message.
C27_Witness ==
    /\ 1 \in rows
    /\ records[1].status = PROCESSED
    /\ records[1].metadata = Some([error |-> ExtractionFailed])
    /\ run[1].pc = "failed" /\ run[2].pc = "processed"
    /\ writtenBy[1]["status"] = 2


\* C28: a media type that upload validation accepts takes one of the pdf, word,
\* plain-text and image branches of extractTextFromFile, and the call succeeds
\* whenever the extraction library does.
C28_AcceptedTypesDispatched ==
    (Extracted /\ validateFile([mimetype |-> probe.mimeType, size |-> 1]).ok) =>
        /\ ExtractorFor(probe.mimeType) \in {"pdfParse", "mammoth", "toString", "textract"}
        /\ probe.lib.ok => Val(probe.result).ok

\* A Word document, which validation accepts, was given to the word branch.
C28_Witness ==
    /\ Extracted
    /\ probe.mimeType = DOCX
    /\ validateFile([mimetype |-> DOCX, size |-> 1]).ok
    /\ ExtractorFor(DOCX) = "mammoth"
    /\ probe.lib = Ok(Text1)
    /\ Val(probe.result) = Ok(Text1)


\* ------------------------------------------------ single calls of functions
\* What the classification and the sentiment call may answer.
ClassificationReplies ==
    {<<"Invoice", "|", "0", ".", "9">>, <<"other", "|", "0">>, <<"unknown">>,
     <<"report", "|", "1", ".", "5">>, <<"form", "|", "-", "0", ".", "2">>}

SentimentReplies ==
    {<<"0", ".", "5">>, <<"none">>, <<"0">>, <<"-", "1">>, <<"-", "2">>}

\* Texts given to detectLanguage: up to MaxWords words separated by one space.
MaxWords == 3
Vocabulary == {"the", "The", "in", "w", "Dla", "kot"}

RECURSIVE Join(_)
Join(tokens) ==
    IF tokens = <<>> THEN <<>>
    ELSE IF Len(tokens) = 1 THEN tokens
    ELSE <<Head(tokens), " ">> \o Join(Tail(tokens))

LanguageSamples ==
    UNION {[1..n -> Vocabulary] : n \in 0..MaxWords}
        \cup {<<"the", "and", "in", "on">>, <<"i", "oraz", "w", "dla">>}

\* The customPrompt of a ProcessDocumentDto: absent, or some text.
Prompts == {Null, Some(<<"Summarise">>), Some(<<"Translate">>)}

\* aiService.processDocument(extractedText), as processDocumentAsync makes the
\* call: the four requests carry the extracted text; customPrompt, a parameter
\* of processDocumentAsync, is not passed on.
AnnotationRequests_WithPrompt(extractedText, customPrompt) ==
    {<<c, extractedText, customPrompt>> : c \in AnnotationCalls}

AnnotationRequests(extractedText, customPrompt) ==
    {<<c, extractedText>> : c \in AnnotationCalls}

\* One invocation of processDocumentAsync from the fetch on, the record store
\* answering every call: the annotation requests it issues and the update it
\* ends with.  object, lib and replies are what storage, the extraction
\* library and the annotation backend answer.
processDocumentRun(customPrompt, mimeType, object, lib, hasLlm, replies) ==
    IF ~object.ok
    THEN [requests |-> {}, update |-> FailedUpdate(object.error)]
    ELSE LET extracted == extractTextFromFile(object.value, mimeType, lib)
         IN  IF ~extracted.ok
             THEN [requests |-> {}, update |-> FailedUpdate(extracted.error)]
             ELSE LET requests == IF hasLlm
                                  THEN AnnotationRequests(extracted.value, customPrompt)
                                  ELSE {}
                      result == processDocument(hasLlm, extracted.value, replies)
                  IN  IF ~result.ok
                      THEN [requests |-> requests, update |-> FailedUpdate(result.error)]
                      ELSE LET partial == ProcessedUpdate(extracted.value, result.value,
                                                generateEmbeddings(extracted.value))
                           IN  IF ColumnsAccept(partial)
                               THEN [requests |-> requests, update |-> partial]
                               ELSE [requests |-> requests,
                                     update |-> FailedUpdate(QueryFailed)]

InitCalls ==
    /\ rows = {}
    /\ records = [d \in DocIds |-> BlankRow]
    /\ writtenBy = [d \in DocIds |-> [f \in TrackedFields |-> 0]]
    /\ storage = [k \in DocIds |-> Null]
    /\ nextId = 1
    /\ llm = TRUE
    /\ run = [r \in Runs |-> IdleRun]
    /\ deleting = {}
    /\ response = NoResponse
    /\ \/ \E text \in {Text1, Text2}, classification \in ClassificationReplies,
            sentiment \in SentimentReplies :
                probe = [fn |-> "processDocument", text |-> text,
                         replies |-> RepliesOf([summary |-> <<"Other">>,
                                                classification |-> classification,
                                                keywords |-> <<"misc">>,
                                                sentiment |-> sentiment], {}),
                         result |-> Null]
       \/ \E tokens \in LanguageSamples :
                probe = [fn |-> "detectLanguage", tokens |-> tokens, text |-> Join(tokens),
                         result |-> Null]
       \/ \E customPrompt \in Prompts, mimeType \in {PDF, PNG}, hasLlm \in BOOLEAN,
            object \in {Ok(Text1), Throw(FileRetrievalFailed)},
            lib \in {Ok(Text1), Throw(OcrError)}, replies \in LLMReplies :
                probe = [fn |-> "processDocumentAsync", customPrompt |-> customPrompt,
                         mimeType |-> mimeType, object |-> object, lib |-> lib,
                         hasLlm |-> hasLlm, replies |-> replies, result |-> Null]

ProcessDocumentCall ==
    /\ probe.fn = "processDocument"
    /\ IsNull(probe.result)
    /\ probe' = [probe EXCEPT !.result = Some(processDocument(llm, probe.text, probe.replies))]
    /\ UNCHANGED <<system, response>>

DetectLanguageCall ==
    /\ probe.fn = "detectLanguage"
    /\ IsNull(probe.result)
    /\ probe' = [probe EXCEPT !.result = Some(detectLanguage(probe.text))]
    /\ UNCHANGED <<system, response>>

ProcessDocumentRunCall ==
    /\ probe.fn = "processDocumentAsync"
    /\ IsNull(probe.result)
    /\ probe' = [probe EXCEPT !.result =
                    Some(processDocumentRun(probe.customPrompt, probe.mimeType, probe.object,
                                            probe.lib, probe.hasLlm, probe.replies))]
    /\ UNCHANGED <<system, response>>

NextCalls ==
    \/ ProcessDocumentCall
    \/ DetectLanguageCall
    \/ ProcessDocumentRunCall

SpecCalls == InitCalls /\ [][NextCalls]_vars

Annotated == probe.fn = "processDocument" /\ ~IsNull(probe.result) /\ Val(probe.result).ok

\* C24: the confidence a processDocument call returns, which the final update
\* stores, is between 0 and 1, and the sentiment between -1 and 1.
C24_ValuesWithinRanges ==
    Annotated =>
        /\ Val(probe.result).value.confidence >= 0
        /\ Val(probe.result).value.confidence <= 100
        /\ Val(probe.result).value.sentiment >= 0 - 100
        /\ Val(probe.result).value.sentiment <= 100


Detected == probe.fn = "detectLanguage" /\ ~IsNull(probe.result)

\* The words of the sample that are, lower-cased, in a stop-word list.
StopWordsIn(list) ==
    Cardinality({i \in 1..Len(probe.tokens) : LowerAtom(probe.tokens[i]) \in list})

\* C25: detectLanguage answers pl exactly when more words of the text are
\* Polish stop words than English ones, and en otherwise, ties and texts
\* without any stop word included; "the and in on" gives en and
\* "i oraz w dla" gives pl.
C25_PolishOnlyOnStrictMajority ==
    Detected =>
        /\ Val(probe.result) = "pl" <=>
            StopWordsIn({"i", "oraz", "lub", "ale", "w", "na", "do", "dla", "z", "przez", "od"})
                > StopWordsIn({"the", "and", "or", "but", "in", "on", "at", "to", "for", "of",
                               "with", "by"})
        /\ Val(probe.result) \in {"pl", "en"}
        /\ probe.tokens = <<"the", "and", "in", "on">> => Val(probe.result) = "en"
        /\ probe.tokens = <<"i", "oraz", "w", "dla">> => Val(probe.result) = "pl"

\* "The w" has one stop word of each language and is taken for English.
C25_Witness ==
    /\ Detected
    /\ probe.text = <<"The", " ", "w">>
    /\ Val(probe.result) = "en"

RunProbed == probe.fn = "processDocumentAsync" /\ ~IsNull(probe.result)

\* C29: with the same answers from storage, the extraction library and the
\* annotation backend, an invocation issues the same annotation requests and
\* ends with the same update whatever its customPrompt is.
C29_CustomPromptIgnored ==
    RunProbed =>
        \A customPrompt \in Prompts :
            processDocumentRun(customPrompt, probe.mimeType, probe.object, probe.lib,
                               probe.hasLlm, probe.replies) = Val(probe.result)

\* An invocation with a customPrompt made the four requests with the extracted
\* text and ended with the final update.
C29_Witness ==
    /\ RunProbed
    /\ probe.customPrompt = Some(<<"Translate">>)
    /\ Val(probe.result).requests = {<<c, Text1>> : c \in AnnotationCalls}
    /\ Val(probe.result).update.status = PROCESSED

\* C30: the confidence processDocument returns is never 0, so the test
\* if (document.confidence) of the search passes for it and the boost is
\* added; a classification reply with confidence 0 gives 0.5.
C30_ConfidenceNeverZero ==
    Annotated =>
        LET confidence == Val(probe.result).value.confidence
        IN  /\ confidence # 0
            /\ TruthyNumber(Some(confidence))
            /\ ConfidenceBoost(cat, [confidence |-> Some(confidence)]) # 0
            /\ probe.replies["classification"].value = <<"other", "|", "0">> =>
                    confidence = 50

C30_Witness ==
    /\ Annotated
    /\ probe.replies["classification"].value = <<"other", "|", "0">>
    /\ Val(probe.result).value.confidence = 50
    /\ Val(probe.result).value.category = <<"other">>

====
